---------------------------- MODULE Spec2Model ----------------------------
(***************************************************************************)
(* Failover orchestrator of stable_llm_service.py: ServiceHealthMonitor    *)
(* (circuit breaker), StableLLMService._call_with_timeout (deadline-bound  *)
(* dispatch on a worker) and StableLLMService._call_service (primary pass  *)
(* then fallback pass over service_order), the constructor's choice of     *)
(* service_order, and StableLLMService.get_service_status.                 *)
(*                                                                         *)
(* Time is a discrete clock `now`; one tick is the unit in which           *)
(* service_timeout and cool_down_period are expressed.  Every read or      *)
(* write of the monitor's two dictionaries is a step of its own, so that   *)
(* concurrent callers interleave as Python threads do.  The status call   *)
(* runs between the calls of its thread; each is_available in it is one    *)
(* step, with one reading of the clock.                                    *)
(***************************************************************************)
EXTENDS Integers, Sequences, FiniteSets, TLC

\* ------------------------------------------------------------------ bounds
MaxCalls == 2
MaxTime == 2
FailureThreshold == 2
CoolDownPeriod == 1
ServiceTimeout == 1
MaxStatusCalls == 1

\* ------------------------------------------------------- program constants
Providers == {"openai", "anthropic"}
DiscoveryOrder == <<"openai", "anthropic">>
Tiers == {"primary", "fallback"}
Methods == {"chat", "analyze"}
Callers == {1, 2}

ServiceName(provider, primary) ==
    <<provider, IF primary THEN "primary" ELSE "fallback">>

Keys == {ServiceName(p, b) : p \in Providers, b \in BOOLEAN}

ModelName(key) ==
    CASE key = <<"openai", "primary">> -> "gpt-4o"
      [] key = <<"openai", "fallback">> -> "gpt-3.5-turbo"
      [] key = <<"anthropic", "primary">> -> "claude-3-opus-20240229"
      [] key = <<"anthropic", "fallback">> -> "claude-3-haiku-20240307"

\* Messages are sequences of characters: the messages an adapter may raise
\* with, and the messages _call_service and _call_with_timeout make up.
RateLimitMessage == <<"H", "T", "T", "P", " ", "4", "2", "9">>
BadKeyMessage == <<"B", "a", "d", " ", "k", "e", "y">>
CircuitOpenMessage == <<"c", "i", "r", "c", "u", "i", "t", " ", "o", "p", "e", "n">>
TimeoutMessage == <<"t", "i", "m", "e", "o", "u", "t">>
AllFailedMessage == <<"a", "l", "l", " ", "f", "a", "i", "l", "e", "d">>

\* "Rate limit exceeded"
RateLimitExceededMessage ==
    <<"R", "a", "t", "e", " ", "l", "i", "m", "i", "t", " ", "e", "x", "c", "e", "e",
      "d", "e", "d">>
\* "429 Too Many Requests"
TooManyRequests429Message ==
    <<"4", "2", "9", " ", "T", "o", "o", " ", "M", "a", "n", "y", " ", "R", "e", "q",
      "u", "e", "s", "t", "s">>
\* "Quota exceeded for this month"
QuotaExceededMessage ==
    <<"Q", "u", "o", "t", "a", " ", "e", "x", "c", "e", "e", "d", "e", "d", " ", "f",
      "o", "r", " ", "t", "h", "i", "s", " ", "m", "o", "n", "t", "h">>
\* "Invalid API key"
InvalidApiKeyMessage ==
    <<"I", "n", "v", "a", "l", "i", "d", " ", "A", "P", "I", " ", "k", "e", "y">>
\* "RATE LIMIT"
UpperRateLimitMessage == <<"R", "A", "T", "E", " ", "L", "I", "M", "I", "T">>
\* "Too Many Requests"
TooManyRequestsMessage ==
    <<"T", "o", "o", " ", "M", "a", "n", "y", " ", "R", "e", "q", "u", "e", "s", "t",
      "s">>
\* "RateLimitError"
RateLimitErrorMessage == <<"R", "a", "t", "e", "L", "i", "m", "i", "t", "E", "r", "r", "o", "r">>
\* "Over CAPACITY"
CapacityMessage == <<"O", "v", "e", "r", " ", "C", "A", "P", "A", "C", "I", "T", "Y">>
\* "Throttled"
ThrottledMessage == <<"T", "h", "r", "o", "t", "t", "l", "e", "d">>
\* "rate  limit"
RateSpacedMessage == <<"r", "a", "t", "e", " ", " ", "l", "i", "m", "i", "t">>
\* "42 9"
SplitCodeMessage == <<"4", "2", " ", "9">>

\* The messages an adapter's exception is tried with, one per run.
TestMessages ==
    { RateLimitMessage, BadKeyMessage, RateLimitExceededMessage, TooManyRequests429Message,
      QuotaExceededMessage, InvalidApiKeyMessage, UpperRateLimitMessage,
      TooManyRequestsMessage, RateLimitErrorMessage, CapacityMessage, ThrottledMessage,
      RateSpacedMessage, SplitCodeMessage }

ReplyContents == {"r1"}

\* What a caller passes: chat(prompt), analyze(prompt, image).
CallerArgs(m) ==
    IF m = "chat" THEN { <<"hello">> } ELSE { <<"what is this", "image">> }

\* os.environ without SERVICE_ORDER, and with SERVICE_ORDER=anthropic,openai
\* (the value as its names and the commas between them).
EnvUnset == <<>>
EnvOrders == {EnvUnset, <<"anthropic", ",", "openai">>}

\* ------------------------------------------------------------- dictionaries
EmptyDict == [x \in {} |-> 0]
Get(d, k, default) == IF k \in DOMAIN d THEN d[k] ELSE default
Put(d, k, v) == [x \in (DOMAIN d) \cup {k} |-> IF x = k THEN v ELSE d[x]]
Del(d, k) == [x \in (DOMAIN d) \ {k} |-> d[x]]

\* ------------------------------------------------------- _is_rate_limited
UpperChars ==
    <<"A", "B", "C", "D", "E", "F", "G", "H", "I", "J", "K", "L", "M", "N", "O", "P", "Q", "R", "S", "T", "U", "V", "W", "X", "Y", "Z">>
LowerChars ==
    <<"a", "b", "c", "d", "e", "f", "g", "h", "i", "j", "k", "l", "m", "n", "o", "p", "q", "r", "s", "t", "u", "v", "w", "x", "y", "z">>

LowerChar(ch) ==
    IF \E i \in 1..Len(UpperChars) : UpperChars[i] = ch
      THEN LowerChars[CHOOSE i \in 1..Len(UpperChars) : UpperChars[i] = ch]
      ELSE ch

ToLower(s) == [i \in 1..Len(s) |-> LowerChar(s[i])]

\* keyword in error_str
Contains(s, kw) ==
    \E i \in 0..(Len(s) - Len(kw)) : \A j \in 1..Len(kw) : s[i + j] = kw[j]

RateLimitKeywords ==
    << <<"r", "a", "t", "e", " ", "l", "i", "m", "i", "t">>,
       <<"r", "a", "t", "e", "l", "i", "m", "i", "t">>,
       <<"t", "o", "o", " ", "m", "a", "n", "y", " ", "r", "e", "q", "u", "e", "s", "t", "s">>,
       <<"4", "2", "9">>,
       <<"q", "u", "o", "t", "a", " ", "e", "x", "c", "e", "e", "d", "e", "d">>,
       <<"c", "a", "p", "a", "c", "i", "t", "y">>,
       <<"t", "h", "r", "o", "t", "t", "l", "e">> >>

\* Faulty variant: the message is matched as it is, without .lower().
IsRateLimitedCaseSensitive(msg) ==
    \E i \in 1..Len(RateLimitKeywords) : Contains(msg, RateLimitKeywords[i])

IsRateLimited(msg) ==
    \E i \in 1..Len(RateLimitKeywords) : Contains(ToLower(msg), RateLimitKeywords[i])

VARIABLES
    \* StableLLMService
    init_error,       \* "none", or the exception __init__ raised
    configs,          \* keys of self.configs
    services,         \* keys of self.services (the adapter registry)
    service_order,    \* self.service_order
    given_order,      \* the service_order argument __init__ was given
    environ,          \* os.environ: the value of SERVICE_ORDER (<<>>: not set)
    \* ServiceHealthMonitor
    failure_counts,   \* self.failure_counts
    disabled_until,   \* self.disabled_until
    \* environment
    now,              \* time.time()
    active,           \* the callers (threads) that exist
    adapter_messages, \* the messages the adapters of this run raise with
    call_budget,      \* how many calls each caller makes in this run
    call_methods,     \* the operations the callers ask for in this run
    \* one frame of _call_service per caller
    pc, method, args, idx, errors, count, started, worker, outcome, errmsg, reply,
    result, ncalls,
    \* the frame of get_service_status
    spc,              \* where the status call is
    sidx,             \* its position in self.services
    status,           \* the dictionary it builds
    nstatus,          \* status calls made so far
    \* history
    events,           \* per caller: what happened to each key of the current call
    invoked,          \* per caller: the adapter calls submitted by the current call
    before,           \* per caller: the key's counter when its attempt began
    lastOp,           \* the last completed operation of the monitor
    consec,           \* per key: record_failure calls since the last success or recovery
    openedAt,         \* per key: when its circuit last opened (-1: never)
    resetKeys,        \* keys on which a success or a recovery has happened
    s_before,         \* the monitor's dictionaries when the status call began
    s_checked,        \* per key: when the status call first checked it
    twin              \* the comparison of two calls: its phase and what it recorded

svars == <<init_error, configs, services, service_order, given_order, environ>>
mvars == <<failure_counts, disabled_until>>
cvars == <<pc, method, args, idx, errors, count, started, worker, outcome, errmsg, reply,
          result, ncalls>>
hvars == <<events, invoked, before, lastOp, consec, openedAt, resetKeys>>
stvars == <<spc, sidx, status, nstatus, s_before, s_checked>>
pvars == <<twin>>
evars == <<now, active, adapter_messages, call_budget, call_methods>>
vars == <<svars, mvars, evars, cvars, hvars, stvars, pvars>>


\* --------------------------------------------------------------- __init__
\* The service_order argument; <<>> stands for None (and for the empty list,
\* which `service_order or ...` treats alike).
OrderArgs ==
    { <<>>, <<"anthropic", "openai">>, <<"openai", "openai">> }

ConfigsOf(creds) == {ServiceName(p, b) : p \in creds, b \in BOOLEAN}

\* _default_service_order: the providers with a "_primary" config, in the
\* insertion order of self.configs; <<>> when there is none (ValueError).
RECURSIVE DiscoveredFrom(_, _)
DiscoveredFrom(cfgs, i) ==
    IF i > Len(DiscoveryOrder) THEN <<>>
    ELSE (IF ServiceName(DiscoveryOrder[i], TRUE) \in cfgs
            THEN <<DiscoveryOrder[i]>> ELSE <<>>) \o DiscoveredFrom(cfgs, i + 1)

DefaultServiceOrder(cfgs) == DiscoveredFrom(cfgs, 1)

ChosenServiceOrder(order_arg, cfgs) ==
    IF order_arg # <<>> THEN order_arg ELSE DefaultServiceOrder(cfgs)

ConstructionError(order_arg, cfgs) ==
    IF order_arg = <<>> /\ DefaultServiceOrder(cfgs) = <<>> THEN "ValueError" ELSE "none"

\* _initialize_services: a config whose create_service raises gets no adapter.
InitializedServices(cfgs, failed) == cfgs \ failed

NoOp == [op |-> "none", key |-> <<"", "">>, at |-> 0, prev |-> 0, ret |-> FALSE]
NoResult == [kind |-> "none"]
NoHealth == [failure_counts |-> EmptyDict, disabled_until |-> EmptyDict]
NoTwin == [phase |-> "before", n0 |-> 0, t0 |-> 0, h0 |-> NoHealth, hA |-> NoHealth,
           ticksA |-> <<>>, ticksB |-> <<>>]

InitWith(callers, credsets, orders, envs, failsets, messages, methods, budget) ==
    \E creds \in credsets, arg \in orders, env \in envs :
      \E failed \in {f \in failsets : f \subseteq ConfigsOf(creds)} :
        /\ given_order = arg
        /\ environ = env
        /\ init_error = ConstructionError(arg, ConfigsOf(creds))
        /\ configs = ConfigsOf(creds)
        /\ services = IF init_error = "none"
                         THEN InitializedServices(ConfigsOf(creds), failed) ELSE {}
        /\ service_order = IF init_error = "none"
                              THEN ChosenServiceOrder(arg, ConfigsOf(creds)) ELSE <<>>
        /\ failure_counts = EmptyDict
        /\ disabled_until = EmptyDict
        /\ now = 0
        /\ active = callers
        /\ adapter_messages = messages
        /\ call_budget = budget
        /\ call_methods = methods
        /\ pc = [c \in Callers |-> "idle"]
        /\ method = [c \in Callers |-> "chat"]
        /\ args = [c \in Callers |-> <<>>]
        /\ idx = [c \in Callers |-> 1]
        /\ errors = [c \in Callers |-> <<>>]
        /\ count = [c \in Callers |-> 0]
        /\ started = [c \in Callers |-> 0]
        /\ worker = [c \in Callers |-> "none"]
        /\ outcome = [c \in Callers |-> "none"]
        /\ errmsg = [c \in Callers |-> <<>>]
        /\ reply = [c \in Callers |-> NoResult]
        /\ result = [c \in Callers |-> NoResult]
        /\ ncalls = [c \in Callers |-> 0]
        /\ events = [c \in Callers |-> <<>>]
        /\ invoked = [c \in Callers |-> <<>>]
        /\ before = [c \in Callers |-> 0]
        /\ lastOp = NoOp
        /\ consec = [k \in Keys |-> 0]
        /\ openedAt = [k \in Keys |-> -1]
        /\ resetKeys = {}
        /\ spc = "idle"
        /\ sidx = 1
        /\ status = EmptyDict
        /\ nstatus = 0
        /\ s_before = [failure_counts |-> EmptyDict, disabled_until |-> EmptyDict]
        /\ s_checked = EmptyDict
        /\ twin = NoTwin

\* create_service fails for no config or for one.
FailSets == {f \in SUBSET Keys : Cardinality(f) <= 1}

Init ==
    InitWith({1}, {{}, {"openai"}, Providers}, OrderArgs, {EnvUnset}, FailSets,
             {RateLimitMessage}, Methods, MaxCalls)

\* ------------------------------------------------- ServiceHealthMonitor
\* Faulty variant: the key is re-enabled at the end of the cool-down, not after it.
CoolDownExpiredAtDeadline(t, until) == t >= until

\* is_available: time.time() > self.disabled_until[service_name]
CoolDownExpired(t, until) == t > until

\* Faulty variant: a failure counts twice.
NextFailureCountDouble(fc, k) == Get(fc, k, 0) + 2

\* record_failure: count = self.failure_counts.get(service_name, 0) + 1
NextFailureCount(fc, k) == Get(fc, k, 0) + 1

\* Faulty variant: the circuit opens one failure before the threshold.
ThresholdReachedEarly(n) == n >= FailureThreshold - 1

\* Faulty variant: the circuit opens one failure late.
ThresholdReachedStrict(cnt) == cnt > FailureThreshold

\* record_failure: if count >= self.failure_threshold
ThresholdReached(cnt) == cnt >= FailureThreshold

\* record_failure: time.time() + self.cool_down_period
DisabledUntilValue(t) == t + CoolDownPeriod

\* Faulty variant: a success creates the entry but leaves an existing counter alone.
AfterRecordSuccessKeeps(fc, k) == Put(fc, k, Get(fc, k, 0))

\* record_success: self.failure_counts[service_name] = 0
AfterRecordSuccess(fc, k) == Put(fc, k, 0)

\* is_available, on expiry: self.failure_counts[service_name] = 0
AfterRecovery(fc, k) == Put(fc, k, 0)

\* What is_available(k) would return in the current state.
WouldBeAvailable(k) ==
    k \in DOMAIN disabled_until => CoolDownExpired(now, disabled_until[k])

\* ------------------------------------------------------------ _call_service
\* Faulty variant: one loop that tries a provider's primary and then its fallback.
AttemptSequenceInterleaved(order) ==
    [i \in 1..(2 * Len(order)) |-> ServiceName(order[(i + 1) \div 2], i % 2 = 1)]

\* The keys of the two loops: service_order x primary, then service_order x
\* fallback.
AttemptSequence(order) ==
    [i \in 1..(2 * Len(order)) |->
        ServiceName(order[((i - 1) % Len(order)) + 1], i <= Len(order))]

Key(c) == AttemptSequence(service_order)[idx[c]]

InPrimaryPass(c) == idx[c] <= Len(service_order)

\* future.result(timeout=self.service_timeout) gives up
DeadlinePassed(start, t) == t - start >= ServiceTimeout

\* The entry appended for a key whose circuit is open.
OpenEntry(k) == [service |-> k, error |-> CircuitOpenMessage]

\* The entry appended for a failed attempt: the primary loop tags it with
\* is_rate_limited, the fallback loop does not.
FailureEntry(k, msg, primary) ==
    IF primary
      THEN [service |-> k, error |-> msg, is_rate_limited |-> IsRateLimited(msg)]
      ELSE [service |-> k, error |-> msg]

AggregatedFailure(errs) ==
    [error |-> AllFailedMessage, details |-> errs, raw_content |-> AllFailedMessage]

\* The dictionary an adapter's chat/analyze returns.
AdapterReply(k, content) ==
    [raw_content |-> content, provider |-> k[1], model |-> ModelName(k)]

Event(k, kind, b, a) == [key |-> k, kind |-> kind, before |-> b, after |-> a]

Returned(value) == [kind |-> "returned", value |-> value]
Raised(exc) == [kind |-> "raised", exc |-> exc]

Set(f, c, v) == [f EXCEPT ![c] = v]

\* chat / analyze enter _call_service: errors = []
StartCall(c, m, a) ==
    /\ init_error = "none"
    /\ c \in active
    /\ pc[c] \in {"idle", "done"}
    /\ spc \in {"idle", "s_done"}
    /\ ncalls[c] < call_budget
    /\ pc' = Set(pc, c, "loop")
    /\ method' = Set(method, c, m)
    /\ args' = Set(args, c, a)
    /\ idx' = Set(idx, c, 1)
    /\ errors' = Set(errors, c, <<>>)
    /\ events' = Set(events, c, <<>>)
    /\ invoked' = Set(invoked, c, <<>>)
    /\ result' = Set(result, c, NoResult)
    /\ reply' = Set(reply, c, NoResult)
    /\ ncalls' = Set(ncalls, c, ncalls[c] + 1)
    /\ UNCHANGED <<svars, pvars, stvars, mvars, evars, count, started, worker, outcome, errmsg,
                   before, lastOp, consec, openedAt, resetKeys>>

\* Both loops are over: return the aggregated failure.
Exhausted(c) ==
    /\ pc[c] = "loop"
    /\ idx[c] > 2 * Len(service_order)
    /\ result' = Set(result, c, Returned(AggregatedFailure(errors[c])))
    /\ pc' = Set(pc, c, "done")
    /\ UNCHANGED <<svars, pvars, stvars, args, mvars, evars, method, idx, errors, count, started, worker,
                   outcome, errmsg, reply, ncalls, hvars>>

\* Faulty variant: the adapter's chat is submitted whatever was asked for.
AfterAvailableAlwaysChat(c, fc) ==
    IF Key(c) \notin services
      THEN /\ idx' = Set(idx, c, idx[c] + 1)
           /\ pc' = Set(pc, c, "loop")
           /\ events' = Set(events, c, Append(events[c], Event(Key(c), "unregistered", 0, 0)))
           /\ UNCHANGED <<worker, started, before, invoked, errors>>
      ELSE /\ worker' = Set(worker, c, "running")
           /\ invoked' = Set(invoked, c,
                  Append(invoked[c], [key |-> Key(c), method |-> "chat",
                                      args |-> args[c]]))
           /\ started' = Set(started, c, now)
           /\ before' = Set(before, c, Get(fc, Key(c), 0))
           /\ pc' = Set(pc, c, "wait")
           /\ UNCHANGED <<idx, events, errors>>

\* Faulty variant: the attempt is made without looking the key up in the registry.
AfterAvailableNoRegistryCheck(c, fc) ==
    /\ worker' = Set(worker, c, "running")
    /\ invoked' = Set(invoked, c,
           Append(invoked[c], [key |-> Key(c), method |-> method[c],
                               args |-> args[c]]))
    /\ started' = Set(started, c, now)
    /\ before' = Set(before, c, Get(fc, Key(c), 0))
    /\ pc' = Set(pc, c, "wait")
    /\ UNCHANGED <<idx, events, errors>>

\* Faulty variant: a key without adapter is skipped with an entry.
AfterAvailableEntryForMissing(c, fc) ==
    IF Key(c) \notin services
      THEN /\ idx' = Set(idx, c, idx[c] + 1)
           /\ pc' = Set(pc, c, "loop")
           /\ events' = Set(events, c, Append(events[c], Event(Key(c), "unregistered", 0, 0)))
           /\ errors' = Set(errors, c, Append(errors[c], OpenEntry(Key(c))))
           /\ UNCHANGED <<worker, started, before, invoked>>
      ELSE /\ worker' = Set(worker, c, "running")
           /\ invoked' = Set(invoked, c,
                  Append(invoked[c], [key |-> Key(c), method |-> method[c],
                                      args |-> args[c]]))
           /\ started' = Set(started, c, now)
           /\ before' = Set(before, c, Get(fc, Key(c), 0))
           /\ pc' = Set(pc, c, "wait")
           /\ UNCHANGED <<idx, events, errors>>

\* is_available returned True for Key(c), with fc the counters at that moment:
\* a key without adapter is skipped silently, otherwise the call
\* getattr(service, method_name)(*args) is submitted to a fresh executor.
AfterAvailable(c, fc) ==
    IF Key(c) \notin services
      THEN /\ idx' = Set(idx, c, idx[c] + 1)
           /\ pc' = Set(pc, c, "loop")
           /\ events' = Set(events, c, Append(events[c], Event(Key(c), "unregistered", 0, 0)))
           /\ UNCHANGED <<worker, started, before, invoked, errors>>
      ELSE /\ worker' = Set(worker, c, "running")
           /\ invoked' = Set(invoked, c,
                  Append(invoked[c], [key |-> Key(c), method |-> method[c],
                                      args |-> args[c]]))
           /\ started' = Set(started, c, now)
           /\ before' = Set(before, c, Get(fc, Key(c), 0))
           /\ pc' = Set(pc, c, "wait")
           /\ UNCHANGED <<idx, events, errors>>

\* Faulty variant: a disabled key is skipped without an entry.
SkipOpenSilently(c) ==
    /\ events' = Set(events, c, Append(events[c], Event(Key(c), "open", 0, 0)))
    /\ idx' = Set(idx, c, idx[c] + 1)
    /\ pc' = Set(pc, c, "loop")
    /\ UNCHANGED errors

\* is_available returned False: the key is skipped with an entry.
SkipOpen(c) ==
    /\ errors' = Set(errors, c, Append(errors[c], OpenEntry(Key(c))))
    /\ events' = Set(events, c, Append(events[c], Event(Key(c), "open", 0, 0)))
    /\ idx' = Set(idx, c, idx[c] + 1)
    /\ pc' = Set(pc, c, "loop")

\* An exception leaves _call_service (nothing catches it there).
Escape(c, exc) ==
    /\ result' = Set(result, c, Raised(exc))
    /\ pc' = Set(pc, c, "done")

\* is_available: if service_name in self.disabled_until
IsAvailableIn(c) ==
    /\ pc[c] = "loop"
    /\ idx[c] <= 2 * Len(service_order)
    /\ IF Key(c) \in DOMAIN disabled_until
         THEN /\ pc' = Set(pc, c, "avail_time")
              /\ UNCHANGED <<idx, errors, events, invoked, worker, started, before, lastOp>>
         ELSE /\ AfterAvailable(c, failure_counts)
              /\ lastOp' = [op |-> "is_available", key |-> Key(c), at |-> now,
                            prev |-> 0, ret |-> TRUE]
    /\ UNCHANGED <<svars, pvars, stvars, args, mvars, evars, method, count, outcome, errmsg,
                   reply, result, ncalls, consec, openedAt, resetKeys>>

\* Faulty variant: the answer of is_available is ignored and the key is tried
\* whether or not its circuit is open.
IsAvailableTimeIgnored(c) ==
    /\ pc[c] = "avail_time"
    /\ Key(c) \in DOMAIN disabled_until
    /\ IF CoolDownExpired(now, disabled_until[Key(c)])
         THEN /\ pc' = Set(pc, c, "avail_del")
              /\ UNCHANGED <<idx, errors, events, lastOp, invoked, worker, started, before>>
         ELSE /\ AfterAvailable(c, failure_counts)
              /\ lastOp' = [op |-> "is_available", key |-> Key(c), at |-> now,
                            prev |-> 0, ret |-> FALSE]
    /\ UNCHANGED <<svars, pvars, stvars, args, mvars, evars, method, count, outcome,
                   errmsg, reply, result, ncalls, consec, openedAt, resetKeys>>

\* Faulty variant: skipping a disabled key starts its cool-down again.
IsAvailableTimeRearms(c) ==
    /\ pc[c] = "avail_time"
    /\ IF Key(c) \notin DOMAIN disabled_until
         THEN /\ Escape(c, "KeyError")
              /\ UNCHANGED <<idx, errors, events, lastOp, disabled_until>>
         ELSE IF CoolDownExpired(now, disabled_until[Key(c)])
           THEN /\ pc' = Set(pc, c, "avail_del")
                /\ UNCHANGED <<idx, errors, events, lastOp, result, disabled_until>>
           ELSE /\ SkipOpen(c)
                /\ disabled_until' = Put(disabled_until, Key(c), DisabledUntilValue(now))
                /\ lastOp' = [op |-> "is_available", key |-> Key(c), at |-> now,
                              prev |-> 0, ret |-> FALSE]
                /\ UNCHANGED result
    /\ UNCHANGED <<svars, pvars, stvars, args, failure_counts, evars, method, count, started, worker,
                   outcome, errmsg, reply, ncalls, invoked, before, consec, openedAt, resetKeys>>

\* is_available: if time.time() > self.disabled_until[service_name]
IsAvailableTime(c) ==
    /\ pc[c] = "avail_time"
    /\ IF Key(c) \notin DOMAIN disabled_until
         THEN /\ Escape(c, "KeyError")
              /\ UNCHANGED <<idx, errors, events, lastOp>>
         ELSE IF CoolDownExpired(now, disabled_until[Key(c)])
           THEN /\ pc' = Set(pc, c, "avail_del")
                /\ UNCHANGED <<idx, errors, events, lastOp, result>>
           ELSE /\ SkipOpen(c)
                /\ lastOp' = [op |-> "is_available", key |-> Key(c), at |-> now,
                              prev |-> 0, ret |-> FALSE]
                /\ UNCHANGED result
    /\ UNCHANGED <<svars, pvars, stvars, args, mvars, evars, method, count, started, worker, outcome,
                   errmsg, reply, ncalls, invoked, before, consec, openedAt, resetKeys>>

\* is_available: del self.disabled_until[service_name]
IsAvailableDel(c) ==
    /\ pc[c] = "avail_del"
    /\ IF Key(c) \notin DOMAIN disabled_until
         THEN /\ Escape(c, "KeyError")
              /\ UNCHANGED disabled_until
         ELSE /\ disabled_until' = Del(disabled_until, Key(c))
              /\ pc' = Set(pc, c, "avail_reset")
              /\ UNCHANGED result
    /\ UNCHANGED <<svars, pvars, stvars, args, failure_counts, evars, method, idx, errors, count, started,
                   worker, outcome, errmsg, reply, ncalls, hvars>>

\* is_available: self.failure_counts[service_name] = 0; return True
IsAvailableReset(c) ==
    /\ pc[c] = "avail_reset"
    /\ failure_counts' = AfterRecovery(failure_counts, Key(c))
    /\ AfterAvailable(c, failure_counts')
    /\ lastOp' = [op |-> "is_available", key |-> Key(c), at |-> now,
                  prev |-> Get(failure_counts, Key(c), -1), ret |-> TRUE]
    /\ consec' = [consec EXCEPT ![Key(c)] = 0]
    /\ resetKeys' = resetKeys \cup {Key(c)}
    /\ UNCHANGED <<svars, pvars, stvars, args, disabled_until, evars, method, count, outcome,
                   errmsg, reply, result, ncalls, openedAt>>

\* ------------------------------------------------------ _call_with_timeout
\* The worker returns the adapter's reply before the deadline.
WorkerReply(c, content) ==
    /\ pc[c] = "wait"
    /\ ~DeadlinePassed(started[c], now)
    /\ worker' = Set(worker, c, "done")
    /\ reply' = Set(reply, c, AdapterReply(Key(c), content))
    /\ pc' = Set(pc, c, "record_success")
    /\ UNCHANGED <<svars, pvars, stvars, args, mvars, evars, method, idx, errors, count, started, outcome,
                   errmsg, result, ncalls, hvars>>

\* Faulty variant: the adapter's exception is not caught by _call_service.
WorkerRaiseEscapes(c, msg) ==
    /\ pc[c] = "wait"
    /\ ~DeadlinePassed(started[c], now)
    /\ worker' = Set(worker, c, "none")
    /\ events' = Set(events, c, Append(events[c], Event(Key(c), "raise", before[c], before[c])))
    /\ Escape(c, "Exception")
    /\ UNCHANGED <<svars, pvars, stvars, args, mvars, evars, method, idx, errors, count, started, outcome,
                   errmsg, reply, ncalls, invoked, before, lastOp, consec, openedAt,
                   resetKeys>>

\* The adapter raises before the deadline: future.result re-raises, the
\* executor has nothing left to wait for, and the handler of _call_service
\* takes over.
WorkerRaise(c, msg) ==
    /\ pc[c] = "wait"
    /\ ~DeadlinePassed(started[c], now)
    /\ worker' = Set(worker, c, "done")
    /\ errmsg' = Set(errmsg, c, msg)
    /\ outcome' = Set(outcome, c, "raise")
    /\ pc' = Set(pc, c, "h_read")
    /\ UNCHANGED <<svars, pvars, stvars, args, mvars, evars, method, idx, errors, count, started, reply,
                   result, ncalls, hvars>>

\* future.result raises TimeoutError; the worker is still running.
Timeout(c) ==
    /\ pc[c] = "wait"
    /\ DeadlinePassed(started[c], now)
    /\ outcome' = Set(outcome, c, "timeout")
    /\ pc' = Set(pc, c, "t_read")
    /\ UNCHANGED <<svars, pvars, stvars, args, mvars, evars, method, idx, errors, count, started, worker,
                   errmsg, reply, result, ncalls, hvars>>

\* The adapter call of an abandoned worker comes back (it need not, ever).
\* Nothing looks at the worker before the executor is shut down, so its
\* return is taken at that point.
WorkerFinishLate(c) ==
    /\ pc[c] = "shutdown"
    /\ worker[c] = "running"
    /\ worker' = Set(worker, c, "done")
    /\ UNCHANGED <<svars, pvars, stvars, args, mvars, evars, pc, method, idx, errors, count, started,
                   outcome, errmsg, reply, result, ncalls, hvars>>

\* Faulty variant: the executor is left without joining its worker.
ExecutorShutdownNoWait(c) ==
    /\ pc[c] = "shutdown"
    /\ errmsg' = Set(errmsg, c, TimeoutMessage)
    /\ pc' = Set(pc, c, "h_read")
    /\ UNCHANGED <<svars, pvars, stvars, args, mvars, evars, method, idx, errors, count, started, worker,
                   outcome, reply, result, ncalls, hvars>>

\* Leaving `with ThreadPoolExecutor() as executor`: shutdown(wait=True) joins
\* the worker, and only then does the timeout exception reach _call_service.
ExecutorShutdown(c) ==
    /\ pc[c] = "shutdown"
    /\ worker[c] = "done"
    /\ errmsg' = Set(errmsg, c, TimeoutMessage)
    /\ pc' = Set(pc, c, "h_read")
    /\ UNCHANGED <<svars, pvars, stvars, args, mvars, evars, method, idx, errors, count, started, worker,
                   outcome, reply, result, ncalls, hvars>>

\* Faulty variant: the success is recorded but the loop goes on to the next key.
RecordSuccessNoReturn(c) ==
    /\ pc[c] = "record_success"
    /\ failure_counts' = Put(failure_counts, Key(c), 0)
    /\ lastOp' = [op |-> "record_success", key |-> Key(c), at |-> now,
                  prev |-> Get(failure_counts, Key(c), -1), ret |-> FALSE]
    /\ consec' = [consec EXCEPT ![Key(c)] = 0]
    /\ resetKeys' = resetKeys \cup {Key(c)}
    /\ events' = Set(events, c, Append(events[c],
                     Event(Key(c), "reply", before[c], Get(failure_counts', Key(c), 0))))
    /\ idx' = Set(idx, c, idx[c] + 1)
    /\ pc' = Set(pc, c, "loop")
    /\ worker' = Set(worker, c, "none")
    /\ UNCHANGED <<svars, pvars, stvars, args, disabled_until, evars, method, errors, count, started,
                   outcome, errmsg, reply, result, ncalls, invoked, before, openedAt>>

\* Faulty variant: a success also closes the circuit.
RecordSuccessClosesCircuit(c) ==
    /\ pc[c] = "record_success"
    /\ failure_counts' = AfterRecordSuccess(failure_counts, Key(c))
    /\ disabled_until' = Del(disabled_until, Key(c))
    /\ lastOp' = [op |-> "record_success", key |-> Key(c), at |-> now,
                  prev |-> Get(failure_counts, Key(c), -1), ret |-> FALSE]
    /\ consec' = [consec EXCEPT ![Key(c)] = 0]
    /\ resetKeys' = resetKeys \cup {Key(c)}
    /\ events' = Set(events, c, Append(events[c],
                     Event(Key(c), "reply", before[c], Get(failure_counts', Key(c), 0))))
    /\ result' = Set(result, c, Returned(reply[c]))
    /\ pc' = Set(pc, c, "done")
    /\ worker' = Set(worker, c, "none")
    /\ UNCHANGED <<svars, pvars, stvars, args, evars, method, idx, errors, count, started,
                   outcome, errmsg, reply, ncalls, invoked, before, openedAt>>

\* record_success, then `return result` through both frames.
RecordSuccess(c) ==
    /\ pc[c] = "record_success"
    /\ failure_counts' = AfterRecordSuccess(failure_counts, Key(c))
    /\ lastOp' = [op |-> "record_success", key |-> Key(c), at |-> now,
                  prev |-> Get(failure_counts, Key(c), -1), ret |-> FALSE]
    /\ consec' = [consec EXCEPT ![Key(c)] = 0]
    /\ resetKeys' = resetKeys \cup {Key(c)}
    /\ events' = Set(events, c, Append(events[c],
                     Event(Key(c), "reply", before[c], Get(failure_counts', Key(c), 0))))
    /\ result' = Set(result, c, Returned(reply[c]))
    /\ pc' = Set(pc, c, "done")
    /\ worker' = Set(worker, c, "none")
    /\ UNCHANGED <<svars, pvars, stvars, args, disabled_until, evars, method, idx, errors, count, started,
                   outcome, errmsg, reply, ncalls, invoked, before, openedAt>>

\* Faulty variant: a failure with a rate-limit message is not counted.
RecordFailureReadSparesRateLimited(c) ==
    /\ pc[c] \in {"t_read", "h_read"}
    /\ count' = Set(count, c, IF pc[c] = "h_read" /\ IsRateLimited(errmsg[c])
                                THEN Get(failure_counts, Key(c), 0)
                                ELSE NextFailureCount(failure_counts, Key(c)))
    /\ pc' = Set(pc, c, IF pc[c] = "t_read" THEN "t_write" ELSE "h_write")
    /\ UNCHANGED <<svars, pvars, stvars, args, mvars, evars, method, idx, errors, started,
                   worker, outcome, errmsg, reply, result, ncalls, hvars>>

\* ----------------------------------------------------------- record_failure
\* record_failure is entered from _call_with_timeout (pc t_*) and from the
\* exception handler of _call_service (pc h_*).
\* count = self.failure_counts.get(service_name, 0) + 1
RecordFailureRead(c) ==
    /\ pc[c] \in {"t_read", "h_read"}
    /\ count' = Set(count, c, NextFailureCount(failure_counts, Key(c)))
    /\ pc' = Set(pc, c, IF pc[c] = "t_read" THEN "t_write" ELSE "h_write")
    /\ UNCHANGED <<svars, pvars, stvars, args, mvars, evars, method, idx, errors, started, worker, outcome,
                   errmsg, reply, result, ncalls, hvars>>

\* record_failure has returned to whoever called it: _call_with_timeout goes
\* on to raise through the `with` block; the handler appends its entry and
\* continues with the next key.
RecordFailureReturn(c, from_timeout, fc) ==
    /\ lastOp' = [op |-> "record_failure", key |-> Key(c), at |-> now,
                  prev |-> count[c] - 1, ret |-> FALSE]
    /\ consec' = [consec EXCEPT ![Key(c)] = @ + 1]
    /\ count' = Set(count, c, 0)
    /\ IF from_timeout
         THEN /\ pc' = Set(pc, c, "shutdown")
              /\ UNCHANGED <<idx, errors, events, worker, outcome, errmsg>>
         ELSE /\ errors' = Set(errors, c,
                     Append(errors[c], FailureEntry(Key(c), errmsg[c], InPrimaryPass(c))))
              /\ events' = Set(events, c, Append(events[c],
                     Event(Key(c), outcome[c], before[c], Get(fc, Key(c), 0))))
              /\ idx' = Set(idx, c, idx[c] + 1)
              /\ pc' = Set(pc, c, "loop")
              /\ worker' = Set(worker, c, "none")
              /\ outcome' = Set(outcome, c, "none")
              /\ errmsg' = Set(errmsg, c, <<>>)

\* self.failure_counts[service_name] = count; if count >= threshold ...
RecordFailureWrite(c) ==
    /\ pc[c] \in {"t_write", "h_write"}
    /\ failure_counts' = Put(failure_counts, Key(c), count[c])
    /\ IF ThresholdReached(count[c])
         THEN /\ pc' = Set(pc, c, IF pc[c] = "t_write" THEN "t_open" ELSE "h_open")
              /\ UNCHANGED <<idx, errors, events, worker, outcome, errmsg, count, lastOp,
                             consec>>
         ELSE RecordFailureReturn(c, pc[c] = "t_write", failure_counts')
    /\ UNCHANGED <<svars, pvars, stvars, args, disabled_until, evars, method, started, reply, result,
                   ncalls, invoked, before, openedAt, resetKeys>>

\* self.disabled_until[service_name] = time.time() + self.cool_down_period
RecordFailureOpen(c) ==
    /\ pc[c] \in {"t_open", "h_open"}
    /\ disabled_until' = Put(disabled_until, Key(c), DisabledUntilValue(now))
    /\ openedAt' = IF Key(c) \in DOMAIN disabled_until THEN openedAt
                   ELSE [openedAt EXCEPT ![Key(c)] = now]
    /\ RecordFailureReturn(c, pc[c] = "t_open", failure_counts)
    /\ UNCHANGED <<svars, pvars, stvars, args, failure_counts, evars, method, started, reply, result,
                   ncalls, invoked, before, resetKeys>>

\* ------------------------------------------------------- get_service_status
\* The status call is made between orchestrated calls, by the thread that
\* makes them; each is_available in it reads the clock once.
\* self.configs, and so self.services, keep the order of insertion.
ConfigOrder ==
    << <<"openai", "primary">>, <<"openai", "fallback">>,
       <<"anthropic", "primary">>, <<"anthropic", "fallback">> >>

\* for service_name in self.services
ServiceList == SelectSeq(ConfigOrder, LAMBDA k : k \in services)

StatusKey == ServiceList[sidx]

\* max(0, round(self.disabled_until.get(service_name, 0) - time.time(), 1)):
\* times are whole numbers here, which round(_, 1) leaves as they are.
CoolDownRemaining(du, k, t) == IF Get(du, k, 0) - t > 0 THEN Get(du, k, 0) - t ELSE 0

\* One is_available(k) of the status call, with its auto-recovery.
StatusIsAvailable(k) ==
    /\ IF k \in DOMAIN disabled_until /\ CoolDownExpired(now, disabled_until[k])
         THEN /\ disabled_until' = Del(disabled_until, k)
              /\ failure_counts' = AfterRecovery(failure_counts, k)
              /\ consec' = [consec EXCEPT ![k] = 0]
              /\ resetKeys' = resetKeys \cup {k}
         ELSE UNCHANGED <<mvars, consec, resetKeys>>
    /\ lastOp' = [op |-> "is_available", key |-> k, at |-> now,
                  prev |-> Get(failure_counts, k, 0), ret |-> WouldBeAvailable(k)]

\* status = {}
StatusStart ==
    /\ init_error = "none"
    /\ spc \in {"idle", "s_done"}
    /\ \A c \in active : pc[c] \in {"idle", "done"}
    /\ nstatus < MaxStatusCalls
    /\ nstatus' = nstatus + 1
    /\ status' = EmptyDict
    /\ sidx' = 1
    /\ spc' = "s_avail"
    /\ s_before' = [failure_counts |-> failure_counts, disabled_until |-> disabled_until]
    /\ s_checked' = EmptyDict
    /\ UNCHANGED <<svars, pvars, mvars, evars, cvars, hvars>>

\* status[service_name] = {"available": is_available(service_name),
\*                         "failure_count": failure_counts.get(service_name, 0)}
StatusEntry ==
    /\ spc = "s_avail"
    /\ sidx <= Len(ServiceList)
    /\ StatusIsAvailable(StatusKey)
    /\ status' = Put(status, StatusKey,
                     [available |-> WouldBeAvailable(StatusKey),
                      failure_count |-> Get(failure_counts', StatusKey, 0)])
    /\ s_checked' = Put(s_checked, StatusKey, now)
    /\ spc' = "s_again"
    /\ UNCHANGED <<svars, pvars, evars, cvars, events, invoked, before, openedAt, sidx, nstatus,
                   s_before>>

\* if not is_available(service_name): the check is made a second time
StatusCheckAgain ==
    /\ spc = "s_again"
    /\ StatusIsAvailable(StatusKey)
    /\ IF WouldBeAvailable(StatusKey)
         THEN /\ sidx' = sidx + 1
              /\ spc' = "s_avail"
         ELSE /\ spc' = "s_remaining"
              /\ UNCHANGED sidx
    /\ UNCHANGED <<svars, pvars, evars, cvars, events, invoked, before, openedAt, status, nstatus,
                   s_before, s_checked>>

\* status[service_name]["cool_down_remaining"] = ...
StatusCoolDownRemaining ==
    /\ spc = "s_remaining"
    /\ status' = Put(status, StatusKey,
                     [available |-> status[StatusKey].available,
                      failure_count |-> status[StatusKey].failure_count,
                      cool_down_remaining |->
                          CoolDownRemaining(disabled_until, StatusKey, now)])
    /\ sidx' = sidx + 1
    /\ spc' = "s_avail"
    /\ UNCHANGED <<svars, pvars, mvars, evars, cvars, hvars, nstatus, s_before, s_checked>>

\* return status
StatusReturn ==
    /\ spc = "s_avail"
    /\ sidx > Len(ServiceList)
    /\ spc' = "s_done"
    /\ UNCHANGED <<svars, pvars, mvars, evars, cvars, hvars, sidx, status, nstatus, s_before,
                   s_checked>>

\* ------------------------------------------------------------------- clock
\* The clock is advanced only when some thread's next step can observe it
\* (it reads time.time(), waits on the deadline, or is between two calls);
\* a tick before a step that does not read the clock commutes with that step.
ClockObserved ==
    \/ \E c \in active :
          pc[c] \in {"loop", "avail_time", "avail_reset", "wait", "t_open", "h_open"}
    \/ spc \in {"s_avail", "s_again", "s_remaining"}

Tick ==
    /\ now < MaxTime
    /\ init_error = "none"
    /\ ClockObserved
    /\ now' = now + 1
    /\ UNCHANGED <<svars, pvars, stvars, args, mvars, active, adapter_messages, call_budget, call_methods,
                   cvars, hvars>>

Next ==
    \/ \E c \in Callers, m \in call_methods : \E a \in CallerArgs(m) : StartCall(c, m, a)
    \/ \E c \in Callers : Exhausted(c)
    \/ \E c \in Callers : IsAvailableIn(c)
    \/ \E c \in Callers : IsAvailableTime(c)
    \/ \E c \in Callers : IsAvailableDel(c)
    \/ \E c \in Callers : IsAvailableReset(c)
    \/ \E c \in Callers, r \in ReplyContents : WorkerReply(c, r)
    \/ \E c \in Callers, msg \in adapter_messages : WorkerRaise(c, msg)
    \/ \E c \in Callers : Timeout(c)
    \/ \E c \in Callers : WorkerFinishLate(c)
    \/ \E c \in Callers : ExecutorShutdown(c)
    \/ \E c \in Callers : RecordSuccess(c)
    \/ \E c \in Callers : RecordFailureRead(c)
    \/ \E c \in Callers : RecordFailureWrite(c)
    \/ \E c \in Callers : RecordFailureOpen(c)
    \/ Tick

\* One caller at a time.
Spec == Init /\ [][Next]_vars

\* Two callers running _call_service concurrently, over a configuration in
\* which only openai_primary has an adapter and service_order names it twice;
\* each caller makes one call.
InitConc ==
    InitWith(Callers, {{"openai"}}, { <<"openai", "openai">> }, {EnvUnset},
             {{<<"openai", "fallback">>}}, {RateLimitMessage}, {"chat"}, 1)
SpecConc == InitConc /\ [][Next]_vars

\* One caller, both credentials, SERVICE_ORDER set or not, the service_order
\* argument given or not.
InitEnv ==
    InitWith({1}, {Providers}, { <<>>, <<"openai", "openai">> }, EnvOrders, {{}},
             {RateLimitMessage}, {"chat"}, MaxCalls)
SpecEnv == InitEnv /\ [][Next]_vars

\* One caller of an openai-only orchestrator whose order names openai twice;
\* the adapters of a run raise with one of the test messages.
InitMsg ==
    \E m \in TestMessages :
        InitWith({1}, {{"openai"}}, { <<"openai", "openai">> }, {EnvUnset}, {{}}, {m},
                 {"chat"}, MaxCalls)
SpecMsg == InitMsg /\ [][Next]_vars

\* Orchestrated calls and status calls of one thread, in any order.
NextStatus ==
    \/ Next
    \/ StatusStart
    \/ StatusEntry
    \/ StatusCheckAgain
    \/ StatusCoolDownRemaining
    \/ StatusReturn

InitStatus ==
    InitWith({1}, {{"openai"}}, { <<"openai", "openai">> }, {EnvUnset},
             {{}, {<<"openai", "fallback">>}}, {RateLimitMessage}, {"chat"}, MaxCalls)
SpecStatus == InitStatus /\ [][NextStatus]_vars

\* chat, analyze and get_service_status on an orchestrator with one provider's
\* credentials, under every order argument and every adapter that fails to build.
InitDrive ==
    InitWith({1}, {{"openai"}}, OrderArgs, {EnvUnset}, FailSets,
             {RateLimitMessage}, Methods, MaxCalls)
SpecDrive == InitDrive /\ [][NextStatus]_vars

\* An event of a call that stands for an adapter call, not for a skipped key.
IsAttempt(e) == e.kind \in {"reply", "raise", "timeout"}

\* ------------------------------------------------------- two calls compared
\* Two runs of _call_service from the same state of the monitor: caller 1
\* makes call A (after at most one earlier call, which leaves the monitor in
\* some state), the monitor and the clock are put back to what they were
\* when A began, and caller 2 makes call B.  The adapters raise with a
\* rate-limit message or with another one, as they please, in both.
Health == [failure_counts |-> failure_counts, disabled_until |-> disabled_until]

PairCaller == IF twin.phase = "B" THEN 2 ELSE 1

PairTurn(c) == c = PairCaller

PairMayStart(c) ==
    \/ twin.phase = "before" /\ ncalls[c] = 0
    \/ twin.phase = "A" /\ ncalls[c] = twin.n0
    \/ twin.phase = "B" /\ ncalls[c] = 0

\* Call A is about to begin: remember the monitor and the clock.
PairBegin ==
    /\ twin.phase = "before"
    /\ init_error = "none"
    /\ pc[1] \in {"idle", "done"}
    /\ twin' = [twin EXCEPT !.phase = "A", !.n0 = ncalls[1], !.t0 = now, !.h0 = Health]
    /\ UNCHANGED <<svars, stvars, mvars, evars, cvars, hvars>>

\* Call A is over: remember the monitor it leaves, and put the monitor and
\* the clock back for call B.
PairRestore ==
    /\ twin.phase = "A"
    /\ pc[1] = "done"
    /\ ncalls[1] = twin.n0 + 1
    /\ twin' = [twin EXCEPT !.phase = "B", !.hA = Health]
    /\ failure_counts' = twin.h0.failure_counts
    /\ disabled_until' = twin.h0.disabled_until
    /\ now' = twin.t0
    /\ UNCHANGED <<svars, stvars, active, adapter_messages, call_budget, call_methods,
                   cvars, hvars>>

\* Where the running call is: how many keys it has dealt with, and its step.
PairPosition(c) == <<Len(events[c]), pc[c]>>

\* Call B meets what call A met.  The clock: time has passed in A at a
\* position that B is at now, and has not yet passed there in B.
PairTickDue ==
    /\ twin.phase = "B"
    /\ Len(twin.ticksB) < Len(twin.ticksA)
    /\ twin.ticksA[Len(twin.ticksB) + 1] = PairPosition(2)

\* The adapters: the key B is waiting for had the outcome `kind` in A (any
\* outcome will do for a key that A did not attempt at that point).
PairOutcome(c, kind) ==
    (c = 2 /\ Len(events[2]) < Len(events[1]) /\ IsAttempt(events[1][Len(events[2]) + 1]))
        => events[1][Len(events[2]) + 1].kind = kind

\* A's adapters raise with a rate-limit message, B's with another one.
PairMessage == IF twin.phase = "B" THEN BadKeyMessage ELSE RateLimitMessage

\* Caller c may take a step of its call.
PairStep(c) == PairTurn(c) /\ ~PairTickDue

\* Time passes, and where it did is remembered for each of the two calls.
PairTick ==
    /\ now < MaxTime
    /\ init_error = "none"
    /\ ClockObserved
    /\ twin.phase = "B" => PairTickDue
    /\ now' = now + 1
    /\ twin' = CASE twin.phase = "A" ->
                      [twin EXCEPT !.ticksA = Append(@, PairPosition(1))]
                 [] twin.phase = "B" ->
                      [twin EXCEPT !.ticksB = Append(@, PairPosition(2))]
                 [] OTHER -> twin
    /\ UNCHANGED <<svars, stvars, mvars, active, adapter_messages, call_budget, call_methods,
                   cvars, hvars>>

NextPair ==
    \/ PairBegin
    \/ PairRestore
    \/ PairTick
    \/ \E c \in Callers, m \in call_methods : \E a \in CallerArgs(m) :
          PairStep(c) /\ PairMayStart(c) /\ StartCall(c, m, a)
    \/ \E c \in Callers : PairStep(c) /\ Exhausted(c)
    \/ \E c \in Callers : PairStep(c) /\ IsAvailableIn(c)
    \/ \E c \in Callers : PairStep(c) /\ IsAvailableTime(c)
    \/ \E c \in Callers : PairStep(c) /\ IsAvailableDel(c)
    \/ \E c \in Callers : PairStep(c) /\ IsAvailableReset(c)
    \/ \E c \in Callers, r \in ReplyContents :
          PairStep(c) /\ PairOutcome(c, "reply") /\ WorkerReply(c, r)
    \/ \E c \in Callers, msg \in adapter_messages :
          PairStep(c) /\ PairOutcome(c, "raise") /\ msg = PairMessage /\ WorkerRaise(c, msg)
    \/ \E c \in Callers : PairStep(c) /\ PairOutcome(c, "timeout") /\ Timeout(c)
    \/ \E c \in Callers : PairStep(c) /\ WorkerFinishLate(c)
    \/ \E c \in Callers : PairStep(c) /\ ExecutorShutdown(c)
    \/ \E c \in Callers : PairStep(c) /\ RecordSuccess(c)
    \/ \E c \in Callers : PairStep(c) /\ RecordFailureRead(c)
    \/ \E c \in Callers : PairStep(c) /\ RecordFailureWrite(c)
    \/ \E c \in Callers : PairStep(c) /\ RecordFailureOpen(c)

\* An openai-only orchestrator with both adapters, whose order names openai
\* twice: a key can fail, be disabled and be met again within one call.
InitPair ==
    InitWith(Callers, {{"openai"}}, { <<"openai", "openai">> }, {EnvUnset}, {{}},
             {RateLimitMessage, BadKeyMessage}, {"chat"}, MaxCalls)
SpecPair == InitPair /\ [][NextPair]_vars

\* ================================================================= claims
HasReply(c) == \E i \in 1..Len(events[c]) : events[c][i].kind = "reply"
IsAggregatedFailure(r) == r.kind = "returned" /\ "error" \in DOMAIN r.value
IsReply(r) == r.kind = "returned" /\ "error" \notin DOMAIN r.value

\* C1: a call in which some key had an adapter, was available when checked
\* and whose adapter replied before the deadline returns a Reply (a mapping
\* without the key "error"), never the aggregated failure.
C1_SomeWorkingProviderAnswers ==
    \A c \in active :
        (pc[c] = "done" /\ HasReply(c)) => IsReply(result[c])

\* A call has returned a reply although an earlier key of it failed.
C1_Witness ==
    \E c \in active :
        /\ pc[c] = "done" /\ IsReply(result[c])
        /\ \E i \in 1..Len(events[c]) : events[c][i].kind \in {"raise", "timeout"}

\* C2: first success wins: a successful attempt is the last thing the call
\* does: the call is over, it returns that attempt's reply, and no key after
\* it is checked or invoked.
C2_FirstSuccessWins ==
    \A c \in active : \A i \in 1..Len(events[c]) :
        events[c][i].kind = "reply" =>
            /\ i = Len(events[c])
            /\ pc[c] = "done"
            /\ result[c] = Returned(reply[c])
            /\ reply[c].provider = events[c][i].key[1]
            /\ reply[c].model = ModelName(events[c][i].key)
            /\ invoked[c][Len(invoked[c])].key = events[c][i].key

\* The first key of a two-provider order succeeded: three keys were left.
C2_Witness ==
    \E c \in active :
        /\ pc[c] = "done" /\ IsReply(result[c])
        /\ Len(service_order) = 2
        /\ Len(events[c]) = 1
        /\ Len(invoked[c]) = 1

\* The order the claim prescribes, written out independently of the loops.
PrimaryThenFallback(order) ==
    [i \in 1..Len(order) |-> <<order[i], "primary">>]
        \o [i \in 1..Len(order) |-> <<order[i], "fallback">>]

RECURSIVE IsSubsequence(_, _)
IsSubsequence(a, b) ==
    IF a = <<>> THEN TRUE
    ELSE IF b = <<>> THEN FALSE
    ELSE IF Head(a) = Head(b) THEN IsSubsequence(Tail(a), Tail(b))
    ELSE IsSubsequence(a, Tail(b))

InvokedKeys(c) == [i \in 1..Len(invoked[c]) |-> invoked[c][i].key]

\* C3: the adapter calls of one orchestrated call are a subsequence of
\* service_order x primary followed by service_order x fallback; a fallback
\* adapter is called only after every primary key was tried or skipped, and
\* never when a primary attempt succeeded.
C3_PrimaryPassThenFallbackPass ==
    \A c \in active :
        /\ IsSubsequence(InvokedKeys(c), PrimaryThenFallback(service_order))
        /\ \A i \in 1..Len(invoked[c]) :
              invoked[c][i].key[2] = "fallback" =>
                  /\ Len(events[c]) >= Len(service_order)
                  /\ \A j \in 1..Len(service_order) :
                        /\ events[c][j].key = <<service_order[j], "primary">>
                        /\ events[c][j].kind # "reply"

\* A-primary failed and B-primary succeeded: exactly these two were called.
C3_Witness ==
    \E c \in active :
        /\ pc[c] = "done" /\ IsReply(result[c])
        /\ service_order = <<"anthropic", "openai">>
        /\ InvokedKeys(c) = << <<"anthropic", "primary">>, <<"openai", "primary">> >>
        /\ events[c][1].kind = "raise"

\* The keys that were disabled or whose attempt failed, in the order met.
ErrorEvents(c) == SelectSeq(events[c], LAMBDA e : e.kind \in {"open", "raise", "timeout"})

\* C4: when no attempt of a call succeeded, the call returns the aggregated
\* failure, and its details hold exactly one entry per key that was disabled
\* or attempted, in the order the attempts were made.
C4_DetailsOnePerAttemptInOrder ==
    \A c \in active :
        (pc[c] = "done" /\ ~HasReply(c)) =>
            /\ IsAggregatedFailure(result[c])
            /\ Len(result[c].value.details) = Len(ErrorEvents(c))
            /\ \A i \in 1..Len(ErrorEvents(c)) :
                  result[c].value.details[i].service = ErrorEvents(c)[i].key

\* An exhausted call that met a disabled key and failed attempts.
C4_Witness ==
    \E c \in active :
        /\ pc[c] = "done" /\ IsAggregatedFailure(result[c])
        /\ Len(result[c].value.details) >= 3
        /\ \E i \in 1..Len(events[c]) : events[c][i].kind = "open"
        /\ \E i \in 1..Len(events[c]) : events[c][i].kind = "timeout"

\* C5: a timed-out attempt records exactly one failure: once the call has
\* handled it, the key's counter is one higher than before the attempt.
C5_TimeoutRecordsOneFailure ==
    \A c \in active : \A i \in 1..Len(events[c]) :
        events[c][i].kind = "timeout" => events[c][i].after = events[c][i].before + 1

\* C6: after the deadline the caller is not held back by the worker: leaving
\* the executor is possible whether or not the adapter call has come back.
C6_CallerUnblockedAtDeadline ==
    \A c \in active : pc[c] = "shutdown" => ENABLED ExecutorShutdown(c)

FailureEvents(c) == SelectSeq(events[c], LAMBDA e : e.kind \in {"raise", "timeout"})
FailureEntries(c) == SelectSeq(errors[c], LAMBDA x : x.error # CircuitOpenMessage)

\* C7: whatever the per-key outcomes, chat/analyze returns and does not
\* raise; every failed attempt has its entry in the error list; and the
\* aggregated failure is returned only when no attempt succeeded.
C7_FailuresNeverEscape ==
    \A c \in active :
        /\ result[c].kind # "raised"
        /\ pc[c] = "done" => result[c].kind = "returned"
        /\ Len(FailureEntries(c)) = Len(FailureEvents(c))
        /\ \A i \in 1..Len(FailureEvents(c)) :
              FailureEntries(c)[i].service = FailureEvents(c)[i].key
        /\ (pc[c] = "done" /\ IsAggregatedFailure(result[c])) => ~HasReply(c)

\* A call met an adapter error and a timeout and still returned a mapping.
C7_Witness ==
    \E c \in active :
        /\ pc[c] = "done" /\ result[c].kind = "returned"
        /\ \E i \in 1..Len(events[c]) : events[c][i].kind = "raise"
        /\ \E i \in 1..Len(events[c]) : events[c][i].kind = "timeout"

\* A caller is inside is_available(k), past the deletion of disabled_until[k].
Recovering(k) == \E c \in active : pc[c] = "avail_reset" /\ Key(c) = k

\* C8: once failureThreshold record_failure calls have been made on a key
\* since its last success or recovery, the key is disabled at once and
\* stays so for at least coolDownPeriod after the circuit opened:
\* is_available returns True for it again only later than that.
C8_OpensAtThresholdUntilCoolDown ==
    /\ \A k \in Keys :
          (consec[k] >= FailureThreshold /\ ~Recovering(k)) =>
              /\ k \in DOMAIN disabled_until
              /\ openedAt[k] >= 0
              /\ disabled_until[k] >= openedAt[k] + CoolDownPeriod
              /\ (now <= openedAt[k] + CoolDownPeriod => ~WouldBeAvailable(k))
    /\ (lastOp.op = "is_available" /\ lastOp.ret /\ openedAt[lastOp.key] >= 0) =>
          lastOp.at > openedAt[lastOp.key] + CoolDownPeriod

\* A key whose circuit had opened at the threshold has been found
\* available again after its cool-down.
C8_Witness ==
    /\ lastOp.op = "is_available" /\ lastOp.ret
    /\ lastOp.prev >= FailureThreshold
    /\ openedAt[lastOp.key] >= 0

\* C9: the step that performs record_success leaves the key with a counter
\* of 0, whatever the counter was and whether or not the key had one.
C9_RecordSuccessResets ==
    [][\A c \in active :
          (pc[c] = "record_success" /\ pc'[c] # "record_success") =>
              /\ Key(c) \in DOMAIN failure_counts'
              /\ failure_counts'[Key(c)] = 0]_vars

\* record_success has just cleared a counter that was positive.
C9_Witness ==
    /\ lastOp.op = "record_success"
    /\ lastOp.prev > 0
    /\ Get(failure_counts, lastOp.key, -1) = 0

\* A caller is inside record_failure(k), between its read and its return.
Recording(k) ==
    \E c \in active : pc[c] \in {"t_write", "t_open", "h_write", "h_open"} /\ Key(c) = k

\* C10: no failure is lost: with no success and no recovery on a key, and no
\* record_failure on it under way, its counter equals the number of
\* record_failure calls made on it.
C10_NoLostFailures ==
    \A k \in Keys :
        (k \notin resetKeys /\ ~Recording(k)) => Get(failure_counts, k, 0) = consec[k]


\* C11: within one orchestrated call no key's adapter is invoked twice,
\* whatever service_order the orchestrator was constructed with.
C11_EachKeyInvokedAtMostOnce ==
    \A c \in active : \A i, j \in 1..Len(invoked[c]) :
        invoked[c][i].key = invoked[c][j].key => i = j


\* The order an environment value asks for: its names, without the commas.
CommaSeparated(env) == SelectSeq(env, LAMBDA t : t # ",")

\* The providers whose credentials are present, in discovery order.
DiscoveredProviders == SelectSeq(DiscoveryOrder, LAMBDA p : <<p, "primary">> \in configs)

\* C12: the order of a constructed orchestrator is the service_order
\* argument when one was given, otherwise the order SERVICE_ORDER names when
\* it is set, otherwise the discovery order of the configured providers.
C12_OrderPrecedence ==
    init_error = "none" =>
        service_order =
            IF given_order # <<>> THEN given_order
            ELSE IF environ # EnvUnset THEN CommaSeparated(environ)
            ELSE DiscoveredProviders


\* C13: with no provider configured, construction fails, whatever the
\* service_order argument; and no constructed orchestrator has an empty
\* adapter registry.
C13_NoProviderRejected ==
    /\ configs = {} => init_error # "none"
    /\ init_error = "none" => services # {}


\* The keywords the claim lists.
ClaimedKeywords ==
    { <<"r", "a", "t", "e", " ", "l", "i", "m", "i", "t">>,
      <<"r", "a", "t", "e", "l", "i", "m", "i", "t">>,
      <<"t", "o", "o", " ", "m", "a", "n", "y", " ", "r", "e", "q", "u", "e", "s", "t", "s">>,
      <<"4", "2", "9">>,
      <<"q", "u", "o", "t", "a", " ", "e", "x", "c", "e", "e", "d", "e", "d">>,
      <<"c", "a", "p", "a", "c", "i", "t", "y">>,
      <<"t", "h", "r", "o", "t", "t", "l", "e">> }

\* The message, lower-cased, has kw at some position.
HasSubstring(msg, kw) ==
    LET low == ToLower(msg) IN
        \E i \in 1..(Len(msg) - Len(kw) + 1) : SubSeq(low, i, i + Len(kw) - 1) = kw

\* What the claim says of each message the adapters are tried with.
ClaimedRateLimited ==
    [msg \in TestMessages \cup {TimeoutMessage} |->
        \E kw \in ClaimedKeywords : HasSubstring(msg, kw)]

\* Messages that name a rate limit, in several case combinations, and
\* messages that do not.
RateLimitedExamples ==
    { RateLimitMessage, RateLimitExceededMessage, TooManyRequests429Message,
      QuotaExceededMessage, UpperRateLimitMessage, TooManyRequestsMessage,
      RateLimitErrorMessage, CapacityMessage, ThrottledMessage }
OtherExamples ==
    { BadKeyMessage, InvalidApiKeyMessage, RateSpacedMessage, SplitCodeMessage,
      TimeoutMessage }

ClassifiedEntries(c) == SelectSeq(errors[c], LAMBDA x : "is_rate_limited" \in DOMAIN x)

\* C14: an error is classified as rate-limited exactly when its lower-cased
\* message contains one of the seven keywords: true for the rate-limit
\* examples in any case combination, false for every other message.
C14_RateLimitedIffKeyword ==
    \A c \in active : \A i \in 1..Len(ClassifiedEntries(c)) :
        LET x == ClassifiedEntries(c)[i] IN
            /\ x.is_rate_limited = ClaimedRateLimited[x.error]
            /\ x.error \in RateLimitedExamples => x.is_rate_limited
            /\ x.error \in OtherExamples => ~x.is_rate_limited

\* One call classified "RATE LIMIT" as rate-limited and a timeout as not.
C14_Witness ==
    \E c \in active :
        /\ Len(ClassifiedEntries(c)) = 2
        /\ ClassifiedEntries(c)[1].error = UpperRateLimitMessage
        /\ ClassifiedEntries(c)[1].is_rate_limited
        /\ ClassifiedEntries(c)[2].error = TimeoutMessage
        /\ ~ClassifiedEntries(c)[2].is_rate_limited


\* The i-th key of the call is the first one that was available and had an
\* adapter, and its adapter replied before the deadline.
FirstEligibleReplied(c, i) ==
    /\ events[c][i].kind = "reply"
    /\ \A j \in 1..(i - 1) : events[c][j].kind \in {"open", "unregistered"}

\* C15: when the adapter of the first eligible key replies before the
\* deadline, the call has invoked that adapter's requested operation exactly
\* once, with the caller's arguments, and nothing else; it returns the
\* adapter's reply as it is; and a success was recorded for the key, whose
\* counter is 0.
C15_FirstEligibleSuccess ==
    \A c \in active : \A i \in 1..Len(events[c]) :
        FirstEligibleReplied(c, i) =>
            LET k == events[c][i].key IN
                /\ invoked[c] = << [key |-> k, method |-> method[c], args |-> args[c]] >>
                /\ args[c] \in CallerArgs(method[c])
                /\ result[c] = Returned(reply[c])
                /\ \E r \in ReplyContents : result[c].value = AdapterReply(k, r)
                /\ lastOp.op = "record_success" /\ lastOp.key = k
                /\ events[c][i].after = 0
                /\ k \in DOMAIN failure_counts /\ failure_counts[k] = 0

\* An analyze call skipped a key and got its reply from the first eligible
\* one, whose counter was positive before.
C15_Witness ==
    \E c \in active : \E i \in 2..Len(events[c]) :
        /\ FirstEligibleReplied(c, i)
        /\ method[c] = "analyze"
        /\ events[c][i].before > 0
        /\ pc[c] = "done"


\* The key's cool-down had elapsed when the status call checked it.
ElapsedAtCheck(k) ==
    /\ k \in DOMAIN s_before.disabled_until
    /\ s_checked[k] > s_before.disabled_until[k]

\* The key's health record is what it was when the status call began.
HealthRecordKept(k) ==
    /\ k \in DOMAIN disabled_until <=> k \in DOMAIN s_before.disabled_until
    /\ Get(disabled_until, k, 0) = Get(s_before.disabled_until, k, 0)
    /\ Get(failure_counts, k, 0) = Get(s_before.failure_counts, k, 0)

StatusAsClaimed ==
    /\ DOMAIN status = services
    /\ \A k \in services :
          IF ElapsedAtCheck(k)
            THEN /\ k \notin DOMAIN disabled_until
                 /\ Get(failure_counts, k, -1) = 0
                 /\ status[k].available
            ELSE HealthRecordKept(k)

\* C16: a status call returns one entry per registered key; a key whose
\* cool-down had elapsed has lost its disabled_until, has a counter of 0 and
\* is reported available; the health record of every other key is as it was
\* before the call.
C16_StatusRecoversElapsedOnly ==
    [][(spc = "s_avail" /\ spc' = "s_done") => StatusAsClaimed']_vars


\* Caller c takes a step of its call.
CallerStepped(c) == <<pc[c], idx[c]>> # <<pc'[c], idx'[c]>>

IsAvailableReturned(k, ret) ==
    /\ lastOp'.op = "is_available"
    /\ lastOp'.key = k
    /\ lastOp'.ret = ret

\* C17: is_available(k) returns True and changes nothing when k has no
\* disabled_until; returns False and changes nothing when the current time
\* does not exceed disabled_until[k]; and when it does, removes
\* disabled_until[k], sets the counter to 0 and returns True.
C17_IsAvailableCases ==
    [][\A c \in active : CallerStepped(c) =>
          /\ (pc[c] = "loop" /\ idx[c] <= 2 * Len(service_order)
                /\ Key(c) \notin DOMAIN disabled_until) =>
                 /\ IsAvailableReturned(Key(c), TRUE)
                 /\ mvars' = mvars
                 /\ errors'[c] = errors[c]
          /\ (pc[c] = "avail_time" /\ ~(now > disabled_until[Key(c)])) =>
                 /\ IsAvailableReturned(Key(c), FALSE)
                 /\ mvars' = mvars
                 /\ pc'[c] = "loop"
          /\ (pc[c] = "avail_time" /\ now > disabled_until[Key(c)]) =>
                 pc'[c] = "avail_del"
          /\ pc[c] = "avail_del" =>
                 /\ pc'[c] = "avail_reset"
                 /\ Key(c) \notin DOMAIN disabled_until'
          /\ pc[c] = "avail_reset" =>
                 /\ IsAvailableReturned(Key(c), TRUE)
                 /\ Key(c) \notin DOMAIN disabled_until'
                 /\ Key(c) \in DOMAIN failure_counts' /\ failure_counts'[Key(c)] = 0
                 /\ errors'[c] = errors[c]]_vars

\* Within one call, is_available returned False for a key and later, the
\* cool-down over, re-enabled it.
C17_Witness ==
    \E c \in active :
        /\ \E i \in 1..Len(events[c]) : events[c][i].kind = "open"
        /\ pc[c] = "wait"
        /\ lastOp.op = "is_available" /\ lastOp.ret /\ lastOp.prev > 0
        /\ Key(c) \notin DOMAIN disabled_until
        /\ failure_counts[Key(c)] = 0


\* The place in the error list of the entry for the call's i-th key.
EntryIndex(c, i) ==
    Len(SelectSeq(SubSeq(events[c], 1, i),
                  LAMBDA e : e.kind \in {"open", "raise", "timeout"}))

\* C18: when an adapter raises before the deadline, the attempt records
\* exactly one failure (the key's counter is one higher than before the
\* attempt), the entry appended for it carries the adapter's message, and the
\* call goes on with the next key: it ends only by a later key's reply or by
\* running out of keys.
C18_AdapterErrorRecordedOnce ==
    \A c \in active : \A i \in 1..Len(events[c]) :
        events[c][i].kind = "raise" =>
            /\ events[c][i].after = events[c][i].before + 1
            /\ EntryIndex(c, i) <= Len(errors[c])
            /\ errors[c][EntryIndex(c, i)].service = events[c][i].key
            /\ errors[c][EntryIndex(c, i)].error \in adapter_messages
            /\ idx[c] > i
            /\ (i = Len(events[c]) /\ pc[c] = "done") =>
                  (idx[c] > 2 * Len(service_order) /\ IsAggregatedFailure(result[c]))


\* A call met an adapter error that is not a rate limit on a key whose
\* counter was already positive, and went on to the next key.
C18_Witness ==
    \E c \in active : \E i \in 1..Len(events[c]) :
        /\ events[c][i].kind = "raise"
        /\ events[c][i].before > 0
        /\ errors[c][EntryIndex(c, i)].error = InvalidApiKeyMessage
        /\ Len(events[c]) > i


\* The attempts of the call so far: those that ended and the one under way.
AttemptsBegun(c) ==
    Len(SelectSeq(events[c], IsAttempt))
        + (IF pc[c] \in {"wait", "record_success", "t_read", "t_write", "t_open",
                         "shutdown", "h_read", "h_write", "h_open"} THEN 1 ELSE 0)

\* C19: an adapter is invoked only by a step in which is_available has just
\* returned True for its key, in the same call; a step in which is_available
\* returns False invokes nothing and moves on to the next key; so every
\* invocation belongs to an attempt, and a key found disabled has none.
C19_AttemptOnlyAfterAvailable ==
    [][\A c \in active :
          /\ (Len(invoked'[c]) > Len(invoked[c])) =>
                /\ pc[c] \in {"loop", "avail_reset"}
                /\ IsAvailableReturned(Key(c), TRUE)
                /\ invoked'[c] = Append(invoked[c], [key |-> Key(c), method |-> method[c],
                                                     args |-> args[c]])
                /\ Key(c) \in services
                /\ Key(c) \notin DOMAIN disabled_until'
          /\ (CallerStepped(c) /\ pc[c] \in {"loop", "avail_time"}
                /\ idx[c] <= 2 * Len(service_order)
                /\ pc'[c] \notin {"avail_time", "avail_del"}
                /\ IsAvailableReturned(Key(c), FALSE)) =>
                /\ invoked'[c] = invoked[c]
                /\ idx'[c] = idx[c] + 1
                /\ pc'[c] = "loop"
          /\ Len(invoked'[c]) = AttemptsBegun(c)']_vars

\* A call skipped a disabled key without invoking it and invoked a later key
\* that is_available had just re-enabled.
C19_Witness ==
    \E c \in active :
        /\ Len(events[c]) >= 1
        /\ events[c][1].kind = "open"
        /\ Len(invoked[c]) = 1
        /\ invoked[c][1].key = events[c][1].key
        /\ pc[c] = "wait"


\* C20: a key found disabled is skipped with a "circuit open" entry, a key
\* without adapter is skipped with none: the error list has exactly one
\* entry per disabled key or failed attempt, every entry names a registered
\* key, and the details of an exhausted call are that list.
C20_EntriesOnlyForDisabledOrFailed ==
    \A c \in active :
        /\ Len(errors[c]) = Len(ErrorEvents(c))
        /\ \A i \in 1..Len(events[c]) :
              /\ events[c][i].kind = "open" =>
                    errors[c][EntryIndex(c, i)] =
                        [service |-> events[c][i].key, error |-> CircuitOpenMessage]
              /\ events[c][i].kind = "unregistered" =>
                    /\ events[c][i].key \notin services
                    /\ EntryIndex(c, i) = (IF i = 1 THEN 0 ELSE EntryIndex(c, i - 1))
        /\ \A j \in 1..Len(errors[c]) :
              /\ errors[c][j].service \in services
              /\ \E i \in 1..Len(events[c]) :
                    /\ events[c][i].key = errors[c][j].service
                    /\ events[c][i].kind \in {"open", "raise", "timeout"}
        /\ (pc[c] = "done" /\ IsAggregatedFailure(result[c])) =>
              result[c].value.details = errors[c]

\* An exhausted call skipped a disabled key and a key without adapter: its
\* details have fewer entries than the call had keys.
C20_Witness ==
    \E c \in active :
        /\ pc[c] = "done" /\ IsAggregatedFailure(result[c])
        /\ \E i \in 1..Len(events[c]) : events[c][i].kind = "open"
        /\ \E i \in 1..Len(events[c]) : events[c][i].kind = "unregistered"
        /\ Len(result[c].value.details) < Len(events[c])
        /\ Len(result[c].value.details) > 0


\* C21: every entry recorded for a failed attempt, in the primary pass and
\* in the fallback pass alike, carries the flag is_rate_limited, and the flag
\* is the classification of the entry's message.
C21_EveryFailureEntryFlagged ==
    \A c \in active : \A j \in 1..Len(FailureEntries(c)) :
        /\ "is_rate_limited" \in DOMAIN FailureEntries(c)[j]
        /\ FailureEntries(c)[j].is_rate_limited = ClaimedRateLimited[FailureEntries(c)[j].error]


\* A caller is in the step that performs record_success on a key whose
\* circuit is open at that moment.
SuccessWhileOpen(c) ==
    /\ pc[c] = "record_success"
    /\ Key(c) \in DOMAIN disabled_until
    /\ ~(now > disabled_until[Key(c)])

\* C24: record_success is never applied to a key that is open: whenever a
\* caller is about to record a success, the key has no disabled_until or its
\* cool-down is over.
C24_NoSuccessWhileOpen ==
    \A c \in active : ~SuccessWhileOpen(c)


\* C24, as amended: record_success is applied to a key only at the end of an
\* attempt on that key, and an attempt is begun only by a step in which
\* is_available returned True for the key; between that check and the
\* success other callers may have opened the key's circuit.
C24_SuccessOnlyAfterAvailableCheck ==
    [][\A c \in active :
          /\ (Len(invoked'[c]) > Len(invoked[c])) =>
                /\ IsAvailableReturned(Key(c), TRUE)
                /\ invoked'[c][Len(invoked'[c])].key = Key(c)
                /\ pc'[c] = "wait"
          /\ (pc[c] = "record_success" /\ pc'[c] # "record_success") =>
                /\ Len(invoked[c]) >= 1
                /\ invoked[c][Len(invoked[c])].key = Key(c)
                /\ lastOp'.op = "record_success" /\ lastOp'.key = Key(c)]_vars

\* A success has just been recorded on a key whose circuit another caller
\* had opened in the meantime.
C24_Witness ==
    /\ lastOp.op = "record_success"
    /\ lastOp.key \in DOMAIN disabled_until
    /\ ~(now > disabled_until[lastOp.key])
    /\ Get(failure_counts, lastOp.key, -1) = 0


\* C23: the step that performs record_success leaves disabled_until as it
\* was and returns normally; when the key was open at that moment it is
\* still unavailable afterwards, with the same deadline.
C23_SuccessLeavesDisabledUntil ==
    [][\A c \in active : (pc[c] = "record_success" /\ CallerStepped(c)) =>
          /\ disabled_until' = disabled_until
          /\ failure_counts' = Put(failure_counts, Key(c), 0)
          /\ pc'[c] = "done"
          /\ result'[c] = Returned(reply[c])
          /\ SuccessWhileOpen(c) =>
                /\ ~WouldBeAvailable(Key(c))'
                /\ disabled_until'[Key(c)] = disabled_until[Key(c)]]_vars

\* A call has returned its reply after recording a success on a key that is
\* still open.
C23_Witness ==
    \E c \in active :
        /\ pc[c] = "done"
        /\ result[c].kind = "returned"
        /\ lastOp.op = "record_success"
        /\ ~WouldBeAvailable(lastOp.key)


\* C25: when concurrent calls run is_available on a key whose cool-down has
\* elapsed, none of them raises: no call ends with the KeyError of a second
\* lookup or a second del of disabled_until[key].
C25_ConcurrentExpiryNeverRaises ==
    \A c \in active : pc[c] = "done" => result[c] # Raised("KeyError")


\* The worker of caller c is still executing an adapter call whose result
\* the caller has given up waiting for.
Abandoned(c) == worker[c] = "running" /\ outcome[c] = "timeout"

\* C26: the workers still executing an abandoned adapter call never outnumber
\* the calls in flight: a call has one worker at a time, and it neither
\* starts its next attempt nor returns while that worker is executing.
C26_AbandonedWorkersBounded ==
    /\ Cardinality({c \in active : Abandoned(c)}) <= Cardinality(active)
    /\ \A c \in active :
          worker[c] = "running" => pc[c] \in {"wait", "t_read", "t_write", "t_open", "shutdown"}

\* After an earlier attempt of the call timed out and its worker was joined,
\* a second attempt has timed out and its worker is still executing.
C26_Witness ==
    \E c \in active :
        /\ Abandoned(c)
        /\ pc[c] = "shutdown"
        /\ \E i \in 1..Len(events[c]) : events[c][i].kind = "timeout"


\* C27: every key with a failure counter or a disabled_until entry is a key
\* of self.services, and every key of self.services is a key of
\* self.configs, whatever chat, analyze and get_service_status calls were made.
C27_HealthKeysRegistered ==
    /\ (DOMAIN failure_counts \cup DOMAIN disabled_until) \subseteq services
    /\ services \subseteq configs

\* An analyze call and a status query have been made on an orchestrator one
\* of whose adapters could not be built, and a circuit is open.
C27_Witness ==
    /\ spc = "s_done"
    /\ services # configs
    /\ DOMAIN disabled_until # {}
    /\ \E c \in active : method[c] = "analyze" /\ ncalls[c] = 2


\* The failed attempts (adapter error or timeout) the call of c has made on k.
FailedAttemptsOn(c, k) == Len(SelectSeq(FailureEvents(c), LAMBDA e : e.key = k))

\* C28: with a single caller, between attempts of its first call, a key that
\* has had no success and no recovery has a counter equal to the number of
\* failed attempts made on it, and is disabled only after at least
\* FailureThreshold of them.
C28_CounterCountsFailedAttempts ==
    \A c \in active : \A k \in Keys :
        (ncalls[c] = 1 /\ k \notin resetKeys /\ pc[c] \in {"loop", "done"}) =>
            /\ Get(failure_counts, k, 0) = FailedAttemptsOn(c, k)
            /\ k \in DOMAIN disabled_until => FailedAttemptsOn(c, k) >= FailureThreshold


\* C29, as stated: a key with a disabled_until entry has a counter of at
\* least FailureThreshold.
C29_OpenImpliesThreshold ==
    \A k \in DOMAIN disabled_until : Get(failure_counts, k, 0) >= FailureThreshold

\* C29, as amended: disabled_until[k] is set only by a record_failure on k
\* whose incremented count reached FailureThreshold, to the time of the call
\* plus the cool-down period; the counter may be reset afterwards while the
\* entry stays.
C29_OpenedOnlyAtThreshold ==
    [][\A k \in Keys :
          (k \in DOMAIN disabled_until'
             /\ (k \notin DOMAIN disabled_until \/ disabled_until[k] # disabled_until'[k])) =>
            /\ \E c \in active :
                  /\ pc[c] \in {"t_open", "h_open"}
                  /\ Key(c) = k
                  /\ count[c] >= FailureThreshold
            /\ lastOp'.op = "record_failure" /\ lastOp'.key = k
            /\ disabled_until'[k] = DisabledUntilValue(now)]_vars

\* Every call is over and a key is left disabled with a counter below the
\* threshold.
C29_Witness ==
    /\ \A c \in active : pc[c] = "done"
    /\ \E k \in DOMAIN disabled_until : Get(failure_counts, k, 0) < FailureThreshold


\* Caller c has just skipped a key because its circuit is open.
SkippedOpen(c) ==
    /\ Len(events'[c]) = Len(events[c]) + 1
    /\ events'[c][Len(events'[c])].kind = "open"

\* C30: the step in which a call skips a key whose circuit is open changes
\* neither failure_counts nor disabled_until; is_available has returned
\* False for that key, and the key's cool-down ends when it did before.
C30_SkipLeavesHealthRecord ==
    [][\A c \in active : SkippedOpen(c) =>
          /\ failure_counts' = failure_counts
          /\ disabled_until' = disabled_until
          /\ Key(c) \in DOMAIN disabled_until
          /\ IsAvailableReturned(Key(c), FALSE)
          /\ events'[c][Len(events'[c])].key = Key(c)
          /\ errors'[c] = Append(errors[c], OpenEntry(Key(c)))]_vars

\* A key has just been skipped at the very end of its cool-down, some time
\* after its circuit opened.
C30_Witness ==
    \E c \in active :
        /\ Len(events[c]) >= 1
        /\ events[c][Len(events[c])].kind = "open"
        /\ lastOp.op = "is_available" /\ lastOp.ret = FALSE /\ lastOp.at = now
        /\ lastOp.key \in DOMAIN disabled_until
        /\ now = disabled_until[lastOp.key]
        /\ now > openedAt[lastOp.key]


\* The moments at which time passed before the call dealt with its i-th key.
TicksBefore(ticks, i) == SelectSeq(ticks, LAMBDA p : p[1] < i)

\* Calls A and B have gone the same way, and met the same clock, up to the
\* point where each deals with its i-th key.
PairAgreeBefore(i) ==
    /\ \A j \in 1..(i - 1) : events[1][j] = events[2][j]
    /\ TicksBefore(twin.ticksA, i) = TicksBefore(twin.ticksB, i)

\* C22: call A, whose adapters raise with a rate-limit message, and call B,
\* whose adapters raise with another message, begin in the same state of the
\* monitor and meet the same adapter outcomes and the same clock.  As long as
\* they have gone the same way, B deals with the key A dealt with: it skips
\* it if A skipped it, attempts it if A attempted it, and an attempt with the
\* same outcome finds and leaves the same counter; B ends where A ended, with
\* the same adapters invoked, a result of the same kind and the same monitor.
C22_ClassificationNeverAltersDispatch ==
    twin.phase = "B" =>
        /\ \A i \in 1..Len(events[2]) : PairAgreeBefore(i) =>
              /\ i <= Len(events[1])
              /\ events[1][i].key = events[2][i].key
              /\ IsAttempt(events[1][i]) <=> IsAttempt(events[2][i])
              /\ ~IsAttempt(events[1][i]) => events[1][i].kind = events[2][i].kind
              /\ events[1][i].kind = events[2][i].kind => events[1][i] = events[2][i]
        /\ (pc[2] = "done" /\ PairAgreeBefore(Len(events[2]) + 1)) =>
              /\ Len(events[2]) = Len(events[1])
              /\ InvokedKeys(2) = InvokedKeys(1)
              /\ result[2].kind = result[1].kind
              /\ IsReply(result[2]) <=> IsReply(result[1])
              /\ twin.ticksA = twin.ticksB => Health = twin.hA

\* Both calls are over, having gone the same way: a key was skipped because
\* its circuit was open, an adapter raised, A's entry for it says rate-limited
\* and B's does not, time has passed, and the monitor has changed.
C22_Witness ==
    /\ twin.phase = "B"
    /\ pc[2] = "done"
    /\ events[2] = events[1]
    /\ twin.ticksB = twin.ticksA
    /\ Len(twin.ticksA) >= 1
    /\ \E i \in 1..Len(events[1]) : events[1][i].kind = "open"
    /\ Len(errors[1]) >= 1 /\ Len(errors[2]) = Len(errors[1])
    /\ \E i \in 1..Len(errors[1]) :
          /\ "is_rate_limited" \in DOMAIN errors[1][i]
          /\ errors[1][i].is_rate_limited
          /\ ~errors[2][i].is_rate_limited
    /\ Health # twin.h0


\* C31: while a key has a disabled_until entry, no step changes the entry's
\* value: the end of a cool-down, once set, stays where it is until the
\* entry is removed.
C31_CoolDownEndNeverMoves ==
    [][\A k \in Keys :
          (k \in DOMAIN disabled_until /\ k \in DOMAIN disabled_until') =>
              disabled_until'[k] = disabled_until[k]]_vars


\* C32: a key whose cool-down has elapsed (its disabled_until entry is still
\* there, the clock is past it) is not made unavailable again by one step,
\* that is by a single record_failure landing before the next is_available.
C32_ElapsedKeyNotReopenedByOneFailure ==
    [][\A k \in Keys :
          (k \in DOMAIN disabled_until /\ CoolDownExpired(now, disabled_until[k]))
              => WouldBeAvailable(k)']_vars


\* The entry of key k in the returned status says what it should: it has a
\* cool_down_remaining exactly when it reports the key unavailable, and a key
\* it reports unavailable is still disabled, its cool-down not elapsed.
StatusEntryConsistent(k) ==
    /\ ("cool_down_remaining" \in DOMAIN status[k]) <=> ~status[k].available
    /\ ~status[k].available => (k \in DOMAIN disabled_until /\ ~WouldBeAvailable(k))

\* C33: when get_service_status returns, every entry of the dictionary it
\* returns is consistent in that sense.
C33_StatusEntriesConsistent ==
    [][(spc = "s_avail" /\ spc' = "s_done") =>
          \A k \in DOMAIN status' : StatusEntryConsistent(k)']_vars

=============================================================================
